---- MODULE Spec2Model ----
(***************************************************************************)
(* GoRpc: one client (client.go) talking to one server connection          *)
(* (server.go) through a gob codec (codec/gob.go), plus the server's       *)
(* service registry (Register / findService / service.go).                 *)
(*                                                                         *)
(* Text is modelled as a sequence of tokens (a token is a run of           *)
(* characters without '.' or '%', or one of the characters "." and "%"),   *)
(* so that strings.LastIndex and fmt.Errorf are computed, not assumed.     *)
(* The nil error is the empty text.                                        *)
(***************************************************************************)
EXTENDS Integers, Sequences, FiniteSets, TLC

\* ------------------------------------------------------------------ bounds
\* number of Go/Call invocations made on the client
MaxCalls == 2
\* number of concurrent Register calls in the registry specification
MaxRegs == 3
\* number of lookups+invocations in the registry specification
MaxInvokes == 2
\* requests a peer sends on one connection in the server specification
MaxReqs == 3
\* responses a peer sends on one connection in the client specification
MaxResps == 2

\* --------------------------------------------------------- program constants
MagicNumber == 3927900
BadMagic == MagicNumber + 1

GobType == "application/gob"
JsonType == "application/json"
\* codec.NewCodeFuncMap after init(): only gob has a constructor
NewCodeFuncMap == {GobType}

NoErr == <<>>
ErrShutdown == <<"conn is shut down">>
ErrEOF == <<"EOF">>
ErrClosedConn == <<"use of closed network connection">>
ErrGobMismatch == <<"gob: type mismatch">>
ErrGobEncode == <<"gob: type cannot be encoded">>

\* ------------------------------------------------------------------ values
\* every Go value that travels as a body: a tag and two integers
Val(t, a, b) == [t |-> t, n1 |-> a, n2 |-> b]
NilV == Val("nil", 0, 0)
ArgsV(a, b) == Val("Args", a, b)
IntV(n) == Val("int", n, 0)
StrV(n) == Val("string", n, 0)
ChanV == Val("chan", 0, 0)
\* var invalidRequest = struct{}{}
invalidRequest == Val("struct{}", 0, 0)

\* gob refuses channels and functions; everything else used here encodes
Encodable(v) == v.t # "chan"

Header(sm, seq, err) == [sm |-> sm, seq |-> seq, err |-> err]
NoHeader == Header(<<>>, 0, NoErr)

\* one gob message on the wire: a Header or a body. "of" is history: for a
\* response body the seq of the request whose handling produced it, for a
\* request body the Seq of the call whose Args it encodes.
HItem(h) == [k |-> "H", h |-> h, b |-> NilV, of |-> 0]
BItem(v, of) == [k |-> "B", h |-> NoHeader, b |-> v, of |-> of]

\* ------------------------------------------------------------------ text
FooSum == <<"Foo", ".", "Sum">>
FooDiv == <<"Foo", ".", "Div">>
FooPct == <<"Foo", ".", "%", "d">>

\* strings.LastIndex(s, "."), 0 when there is none (indices from 1)
RECURSIVE LastIndexFrom(_, _)
LastIndexFrom(s, i) ==
    IF i = 0 THEN 0
    ELSE IF s[i] = "." THEN i
    ELSE LastIndexFrom(s, i - 1)

\* (mutant) the split is made at the first "." (strings.Index)
MutLastIndexFirst(s) ==
    IF \E i \in 1..Len(s) : s[i] = "."
    THEN CHOOSE i \in 1..Len(s) : s[i] = "." /\ \A j \in 1..(i - 1) : s[j] # "."
    ELSE 0

LastIndex(s) == LastIndexFrom(s, Len(s))

\* fmt.Errorf(format) with no operands: "%%" prints "%", "%" and a verb v
\* prints "%!v(MISSING)", a trailing "%" prints "%!(NOVERB)"
RECURSIVE Errorf(_)
Errorf(f) ==
    IF f = <<>> THEN <<>>
    ELSE IF Head(f) # "%" THEN <<Head(f)>> \o Errorf(Tail(f))
    ELSE IF Len(f) = 1 THEN <<"%!(NOVERB)">>
    ELSE IF f[2] = "%" THEN <<"%">> \o Errorf(Tail(Tail(f)))
    ELSE <<"%!", f[2], "(MISSING)">> \o Errorf(Tail(Tail(f)))

\* ------------------------------------------------------------------ codec
\* A connection end is "open" or "closed"; severed is the network failing
\* under both ends. A write below the bufio.Writer reaches the wire only
\* when the own end is open and the network is up.
Writable(conn, sev) == conn = "open" /\ ~sev

\* GobCodec.Write(h, body) on a codec whose bufio.Writer has (bufErr) or has
\* not a sticky error. The result: the error returned, the own end and the
\* sticky flag afterwards, and the messages that reached the wire.
\*  - sticky error: enc.Encode(h) fails at once, nothing is sent, Close.
\*  - body not encodable: the header is already buffered, the deferred
\*    Flush sends it alone, then Close.
\*  - otherwise both are buffered and flushed; a failing Flush is dropped
\*    (_ = c.buf.Flush()) and only leaves the sticky error behind.
GobWrite(conn, bufErr, sev, h, body, of) ==
    IF bufErr
    THEN [err |-> ErrClosedConn, conn |-> "closed", bufErr |-> TRUE, out |-> <<>>]
    ELSE IF ~Encodable(body)
    THEN [err |-> ErrGobEncode, conn |-> "closed",
          bufErr |-> ~Writable(conn, sev),
          out |-> IF Writable(conn, sev) THEN <<HItem(h)>> ELSE <<>>]
    ELSE [err |-> NoErr, conn |-> conn, bufErr |-> ~Writable(conn, sev),
          out |-> IF Writable(conn, sev)
                  THEN <<HItem(h), BItem(body, of)>> ELSE <<>>]

\* dec.Decode returns (does not block) when the own end is closed, the
\* network is down, a message is waiting, or the peer has closed (EOF).
ReadReady(conn, q, peer, sev) ==
    conn = "closed" \/ sev \/ q # <<>> \/ peer = "closed"

ReadErr(conn, q, sev) ==
    IF conn = "closed" THEN ErrClosedConn
    ELSE IF sev \/ q = <<>> THEN ErrEOF
    ELSE NoErr

\* GobCodec.ReadHeader: the next message decoded into a Header. A message
\* that is not a Header is consumed and fails with a gob type mismatch.
GobReadHeader(conn, q, sev) ==
    IF ReadErr(conn, q, sev) # NoErr
    THEN [err |-> ReadErr(conn, q, sev), h |-> NoHeader, rest |-> q]
    ELSE IF Head(q).k = "H"
    THEN [err |-> NoErr, h |-> Head(q).h, rest |-> Tail(q)]
    ELSE [err |-> ErrGobMismatch, h |-> NoHeader, rest |-> Tail(q)]

\* (mutant) ReadBody(nil) returns without decoding the message
MutGobReadBodySkipNil(conn, q, sev, t) ==
    IF ReadErr(conn, q, sev) # NoErr
    THEN [err |-> ReadErr(conn, q, sev), v |-> NilV, of |-> 0, rest |-> q]
    ELSE IF t = "nil"
    THEN [err |-> NoErr, v |-> NilV, of |-> 0, rest |-> q]
    ELSE IF Head(q).k = "B" /\ Head(q).b.t = t
    THEN [err |-> NoErr, v |-> Head(q).b, of |-> Head(q).of, rest |-> Tail(q)]
    ELSE [err |-> ErrGobMismatch, v |-> NilV, of |-> 0, rest |-> Tail(q)]

\* GobCodec.ReadBody(target): the next message decoded into a value of Go
\* type t; t = "nil" is ReadBody(nil), which decodes and discards anything.
GobReadBody(conn, q, sev, t) ==
    IF ReadErr(conn, q, sev) # NoErr
    THEN [err |-> ReadErr(conn, q, sev), v |-> NilV, of |-> 0, rest |-> q]
    ELSE IF t = "nil"
    THEN [err |-> NoErr, v |-> NilV, of |-> 0, rest |-> Tail(q)]
    ELSE IF Head(q).k = "B" /\ Head(q).b.t = t
    THEN [err |-> NoErr, v |-> Head(q).b, of |-> Head(q).of, rest |-> Tail(q)]
    ELSE [err |-> ErrGobMismatch, v |-> NilV, of |-> 0, rest |-> Tail(q)]

\* ------------------------------------------------------------------ services
\* A Go type: its name, whether the name is exported, its package path
\* ("" for builtin and unnamed types such as *int), and for a pointer type
\* the type it points to (elem; <<>> for every other type).
GoType(name, exported, pkg) ==
    [name |-> name, exported |-> exported, pkg |-> pkg, elem |-> <<>>]
\* reflect: a pointer type *T has Name() "" and PkgPath() "" whatever T is
PtrTo(t) == [name |-> "", exported |-> FALSE, pkg |-> "", elem |-> <<t>>]
TArgs == GoType("Args", TRUE, "gorpc")
TInt == GoType("int", FALSE, "")
TPtrInt == PtrTo(TInt)
\* an unexported struct type of the service's package
TSecret == GoType("secret", FALSE, "gorpc")

\* A method of a registered instance's type as reflection shows it.
Method(name, numIn, numOut, outErr, argT, replyT) ==
    [name |-> name, numIn |-> numIn, numOut |-> numOut, outErr |-> outErr,
     argT |-> argT, replyT |-> replyT]

\* type Foo of service_test.go (Sum) with a second conforming method that
\* can fail (Div), and a type Bar; instance 3 is a Bar, every other a Foo.
\* Bar has, next to Sum, exported methods of other shapes: Ping(reply *int)
\* error, Count(Args, *int) int, Hide(secret, *int) error and
\* Leak(Args, *secret) error.
TypeName(inst) == IF inst = 3 THEN "Bar" ELSE "Foo"

TypeMethods(inst) ==
    IF inst = 3
    THEN {Method("Sum", 3, 1, TRUE, TArgs, TPtrInt),
          Method("Ping", 2, 1, TRUE, TPtrInt, TPtrInt),
          Method("Count", 3, 1, FALSE, TArgs, TPtrInt),
          Method("Hide", 3, 1, TRUE, TSecret, TPtrInt),
          Method("Leak", 3, 1, TRUE, TArgs, PtrTo(TSecret))}
    ELSE {Method("Sum", 3, 1, TRUE, TArgs, TPtrInt),
          Method("Div", 3, 1, TRUE, TArgs, TPtrInt)}

isExportedOrBuiltinType(t) == t.exported \/ t.pkg = ""

\* service.registerMethods: the names of the methods kept
registerMethods(inst) ==
    {m.name : m \in {x \in TypeMethods(inst) :
        /\ x.numIn = 3 /\ x.numOut = 1
        /\ x.outErr
        /\ isExportedOrBuiltinType(x.argT)
        /\ isExportedOrBuiltinType(x.replyT)}}

newService(inst) ==
    [name |-> <<TypeName(inst)>>, inst |-> inst, method |-> registerMethods(inst)]

NoService == [name |-> <<>>, inst |-> 0, method |-> {}]

\* Server.findService on a service map: the service, the method name found
\* ("" for mType == nil) and the error
findService(map, serverMethod) ==
    LET dot == LastIndex(serverMethod)
        serviceName == SubSeq(serverMethod, 1, dot - 1)
        methodName == SubSeq(serverMethod, dot + 1, Len(serverMethod))
    IN  IF dot = 0
        THEN [svc |-> NoService, mType |-> "",
              err |-> <<"rpc server: service/method request ill-formed: ">>
                        \o serverMethod]
        ELSE IF serviceName \notin DOMAIN map
        THEN [svc |-> NoService, mType |-> "",
              err |-> <<"rpc server: can't find service: ">> \o serviceName]
        ELSE IF Len(methodName) # 1 \/ methodName[1] \notin map[serviceName].method
        THEN [svc |-> map[serviceName], mType |-> "",
              err |-> <<"rpc server: can't find method: ">> \o methodName]
        ELSE [svc |-> map[serviceName], mType |-> methodName[1], err |-> NoErr]

\* service.call: what the user's method does with argv (the reply it
\* stores and the error it returns)
ServiceCall(mType, argv) ==
    IF mType = "Sum"
    THEN [err |-> NoErr, reply |-> IntV(argv.n1 + argv.n2)]
    ELSE IF argv.n2 = 0
    THEN [err |-> <<"divide by zero">>, reply |-> IntV(0)]
    ELSE [err |-> NoErr, reply |-> IntV(argv.n1 \div argv.n2)]

\* ------------------------------------------------------------------ state
VARIABLES
    opt,        \* the Option that reaches ServeConn: [MagicNumber, CodecType]
    ver,        \* which server.go serves: "reg" (registry) or "day1"
    calls,      \* the Call structs, by the order in which Go created them
    cseq,       \* Client.seq
    pending,    \* Client.pending: seq -> index of the Call
    closed,     \* Client.closed
    shutdown,   \* Client.shutdown
    sendLock,   \* Client.sendLock: 0 free, i held by send(calls[i])
    header,     \* Client.header, reused by every send
    pcR,        \* the receive goroutine: "hdr", "body", "term", "exit"
    rh,         \* receive: h, the header last read
    rcall,      \* receive: call, 0 for nil
    rerr,       \* receive: err
    cliConn,    \* the client's end of the connection
    cliBufErr,  \* the client codec's bufio.Writer has a sticky error
    c2s,        \* gob messages written by the client, unread by the server
    s2c,        \* gob messages written by the server, unread by the client
    severed,    \* the network under the connection is down
    spc,        \* ServeConn/serveCodec: "opt", "rejected", "read", "resp", "wait", "done"
    reqs,       \* the request structs readRequest returned, in order
    srvSendLock, \* serveCodec's sendLock: 0 free, k held for reqs[k]
    srvConn,    \* the server's end of the connection
    srvBufErr,  \* the server codec's bufio.Writer has a sticky error
    srvCodec,   \* ServeConn constructed a codec
    serviceMap, \* Server.serviceMap: service name -> service
    numCalls,   \* methodType.numCalls, by <<instance, method name>>
    regs,       \* the Register calls: what each has returned so far
    lookups,    \* registry specification: the findService+call results
    lock,       \* Client.lock: 0 free, p held by process p (lock specification)
    lkpc        \* lock specification: where each process of the client is

vars == <<opt, ver, calls, cseq, pending, closed, shutdown, sendLock, header,
          pcR, rh, rcall, rerr, cliConn, cliBufErr, c2s, s2c, severed,
          spc, reqs, srvSendLock, srvConn, srvBufErr, srvCodec,
          serviceMap, numCalls, regs, lookups, lock, lkpc>>

lockVars == <<lock, lkpc>>

clientVars == <<calls, cseq, pending, closed, shutdown, sendLock, header,
                pcR, rh, rcall, rerr, cliBufErr>>
serverVars == <<spc, reqs, srvSendLock, srvBufErr, srvCodec, numCalls>>

CallIds == 1..MaxCalls
\* the processes of the lock specification: the senders are the calls, then
\* the receive goroutine, a caller of Close and a caller of IsAvailable
Reader == MaxCalls + 1
Closer == MaxCalls + 2
Asker == MaxCalls + 3
LockProcs == 1..(MaxCalls + 3)
\* the instances handed to Register
Insts == 1..MaxRegs

\* NewClient: a client exists when its codec type has a constructor;
\* otherwise the Option comes from a foreign peer.
ClientUp == opt.CodecType \in NewCodeFuncMap

Options ==
    { [MagicNumber |-> MagicNumber, CodecType |-> GobType],
      [MagicNumber |-> BadMagic, CodecType |-> GobType],
      [MagicNumber |-> MagicNumber, CodecType |-> JsonType] }

\* What the i-th caller may pass to Call: service method, args, type of *reply
Input(sm, args, replyT) == [sm |-> sm, args |-> args, replyT |-> replyT]

CallInputs(i) ==
    { Input(FooSum, ArgsV(i, 1), "int"),
      Input(FooDiv, ArgsV(i, 0), "int"),
      Input(FooSum, StrV(0), "int"),
      Input(FooPct, ArgsV(i, 1), "int"),
      Input(FooSum, ChanV, "int") }

\* a Call before Go has built it
NoCall ==
    [pc |-> "idle", sm |-> <<>>, args |-> NilV, replyT |-> "nil", Seq |-> 0,
     Reply |-> NilV, Error |-> NoErr, nDone |-> 0, chan |-> 0, ch |-> 0,
     of |-> 0,
     ret |-> NoErr]

\* cap(call.Done) for Call: make(chan *Call, 1)
DoneCap == 1

\* a Register call that has not returned
NoReg == [pc |-> "new", err |-> NoErr]

\* newClientCodec / NewServer, with Foo registered before serving
InitClient ==
    /\ calls = [i \in CallIds |-> NoCall]
    /\ cseq = 1
    /\ pending = <<>>
    /\ closed = FALSE
    /\ shutdown = FALSE
    /\ sendLock = 0
    /\ header = NoHeader
    /\ pcR = "hdr"
    /\ rh = NoHeader
    /\ rcall = 0
    /\ rerr = NoErr
    /\ cliConn = "open"
    /\ cliBufErr = FALSE
    /\ lock = 0
    /\ lkpc = [p \in LockProcs |-> IF p = Reader THEN "hdr" ELSE "idle"]

InitServer ==
    /\ spc = "opt"
    /\ reqs = <<>>
    /\ srvSendLock = 0
    /\ srvConn = "open"
    /\ srvBufErr = FALSE
    /\ srvCodec = FALSE
    /\ numCalls = [m \in Insts \X {"Sum", "Div"} |-> 0]

Init ==
    /\ opt \in Options
    /\ ver \in {"reg", "day1"}
    /\ InitClient
    /\ InitServer
    /\ c2s = <<>>
    /\ s2c = <<>>
    /\ severed = FALSE
    /\ serviceMap = (<<"Foo">> :> newService(1))
    /\ regs = [r \in Insts |-> IF r = 1 THEN [pc |-> "ok", err |-> NoErr] ELSE NoReg]
    /\ lookups = <<>>

\* ------------------------------------------------------------------ client
\* call.done(): call.Done <- call (blocks while the channel is full)
\* call.Done: every Call makes a channel of its own (ch = the call's
\* index); the callers of Go may hand in one channel for several calls
SharedChan == MaxCalls + 1
\* the capacity of a channel handed to Go: 1, the least Go admits
SharedCap == DoneCap
ChanCap(ch) == IF ch = SharedChan THEN SharedCap ELSE DoneCap
\* the calls waiting in channel ch to be received
ChanLoad(ch) == Cardinality({j \in CallIds : calls[j].ch = ch /\ calls[j].chan > 0})

\* call.Done <- call goes through at once; otherwise done() blocks
CanDone(c) == ChanLoad(c.ch) < ChanCap(c.ch)
done(c) == [c EXCEPT !.nDone = @ + 1, !.chan = @ + 1]

\* (mutant) registerCall forgets the shutdown flag
MutRegisterRefusedClosedOnly == closed

\* registerCall's test: if client.closed || client.shutdown
RegisterRefused == closed \/ shutdown

\* removeCall(seq) on the pending table: the call (0 for nil), the table left
removeCall(table, seq) ==
    [call |-> IF seq \in DOMAIN table THEN table[seq] ELSE 0,
     table |-> [k \in DOMAIN table \ {seq} |-> table[k]]]

\* Go builds the Call and send takes sendLock (client.go 250-264, 221)
\* (mutant) send does not take sendLock
MutGoSendNoLock(i) ==
    /\ ClientUp
    /\ calls[i].pc = "idle"
    /\ \A j \in CallIds : j < i => calls[j].pc # "idle"
    /\ \E in \in CallInputs(i) :
         calls' = [calls EXCEPT ![i] = [@ EXCEPT !.pc = "reg", !.sm = in.sm,
                       !.args = in.args, !.replyT = in.replyT, !.ch = i]]
    /\ sendLock' = i
    /\ UNCHANGED <<lockVars, opt, ver, cseq, pending, closed, shutdown, header,
                   pcR, rh, rcall, rerr, cliConn, cliBufErr, c2s, s2c, severed,
                   serverVars, srvConn, serviceMap, regs, lookups>>

GoSend(i) ==
    /\ ClientUp
    /\ calls[i].pc = "idle"
    /\ \A j \in CallIds : j < i => calls[j].pc # "idle"
    /\ sendLock = 0
    /\ \E in \in CallInputs(i) :
         calls' = [calls EXCEPT ![i] = [@ EXCEPT !.pc = "reg", !.sm = in.sm,
                       !.args = in.args, !.replyT = in.replyT, !.ch = i]]
    /\ sendLock' = i
    /\ UNCHANGED <<lockVars, opt, ver, cseq, pending, closed, shutdown, header,
                   pcR, rh, rcall, rerr, cliConn, cliBufErr, c2s, s2c, severed,
                   serverVars, srvConn, serviceMap, regs, lookups>>

\* (mutant) registerCall does not advance client.seq
MutSendRegisterNoIncr(i) ==
    /\ calls[i].pc = "reg"
    /\ IF RegisterRefused
       THEN /\ CanDone(calls[i])
            /\ calls' = [calls EXCEPT ![i] =
                           done([@ EXCEPT !.Error = ErrShutdown, !.pc = "wait"])]
            /\ sendLock' = 0
            /\ UNCHANGED <<pending, header>>
       ELSE /\ calls' = [calls EXCEPT ![i] = [@ EXCEPT !.Seq = cseq, !.pc = "write"]]
            /\ pending' = (cseq :> i) @@ pending
            /\ header' = Header(calls[i].sm, cseq, NoErr)
            /\ UNCHANGED sendLock
    /\ UNCHANGED <<lockVars, opt, ver, cseq, closed, shutdown, pcR, rh, rcall, rerr, cliConn,
                   cliBufErr, c2s, s2c, severed, serverVars, srvConn,
                   serviceMap, regs, lookups>>

\* send: registerCall and, when it succeeds, the header (client.go 225-236)
SendRegister(i) ==
    /\ calls[i].pc = "reg"
    /\ IF RegisterRefused
       THEN /\ CanDone(calls[i])
            /\ calls' = [calls EXCEPT ![i] =
                           done([@ EXCEPT !.Error = ErrShutdown, !.pc = "wait"])]
            /\ sendLock' = 0
            /\ UNCHANGED <<cseq, pending, header>>
       ELSE /\ calls' = [calls EXCEPT ![i] = [@ EXCEPT !.Seq = cseq, !.pc = "write"]]
            /\ pending' = (cseq :> i) @@ pending
            /\ cseq' = cseq + 1
            /\ header' = Header(calls[i].sm, cseq, NoErr)
            /\ UNCHANGED sendLock
    /\ UNCHANGED <<lockVars, opt, ver, closed, shutdown, pcR, rh, rcall, rerr, cliConn,
                   cliBufErr, c2s, s2c, severed, serverVars, srvConn,
                   serviceMap, regs, lookups>>

\* (mutant) the failed call is completed but left in the pending table
MutSendWriteFailedKeep(table, cs, seq, err) ==
    [table |-> table,
     calls |-> IF seq \in DOMAIN table
               THEN [cs EXCEPT ![table[seq]] = done([@ EXCEPT !.Error = err])]
               ELSE cs,
     call |-> IF seq \in DOMAIN table THEN table[seq] ELSE 0]

\* send: on a failed Write the call is taken out of pending and, if it was
\* still there, completed with the write error (client.go 239-247)
SendWriteFailed(table, cs, seq, err) ==
    LET r == removeCall(table, seq)
    IN  [table |-> r.table,
         calls |-> IF r.call = 0 THEN cs
                   ELSE [cs EXCEPT ![r.call] = done([@ EXCEPT !.Error = err])],
         call |-> r.call]

SendWrite(i) ==
    /\ calls[i].pc = "write"
    /\ LET w == GobWrite(cliConn, cliBufErr, severed, header, calls[i].args,
                         calls[i].Seq)
           f == SendWriteFailed(pending, calls, calls[i].Seq, w.err)
       IN  /\ c2s' = IF srvConn = "open" THEN c2s \o w.out ELSE c2s
           /\ cliConn' = w.conn
           /\ cliBufErr' = w.bufErr
           /\ IF w.err # NoErr
              THEN /\ f.call # 0 => CanDone(calls[f.call])
                   /\ pending' = f.table
                   /\ calls' = [f.calls EXCEPT ![i].pc = "wait"]
              ELSE /\ pending' = pending
                   /\ calls' = [calls EXCEPT ![i].pc = "wait"]
    /\ sendLock' = 0
    /\ UNCHANGED <<lockVars, opt, ver, cseq, closed, shutdown, header, pcR, rh, rcall,
                   rerr, s2c, severed, serverVars, srvConn, serviceMap, regs, lookups>>

\* Call: call := <-Done; return call.Error (client.go 270-271)
CallReturn(i) ==
    /\ calls[i].pc = "wait"
    /\ calls[i].chan > 0
    /\ calls' = [calls EXCEPT ![i] =
                   [@ EXCEPT !.chan = @ - 1, !.ret = calls[i].Error, !.pc = "ret"]]
    /\ UNCHANGED <<lockVars, opt, ver, cseq, pending, closed, shutdown, sendLock, header,
                   pcR, rh, rcall, rerr, cliConn, cliBufErr, c2s, s2c, severed,
                   serverVars, srvConn, serviceMap, regs, lookups>>

\* Client.Close; a second Close returns ErrShutdown and changes nothing
Close ==
    /\ ClientUp
    /\ ~closed
    /\ closed' = TRUE
    /\ cliConn' = "closed"
    /\ UNCHANGED <<lockVars, opt, ver, calls, cseq, pending, shutdown, sendLock, header,
                   pcR, rh, rcall, rerr, cliBufErr, c2s, s2c, severed,
                   serverVars, srvConn, serviceMap, regs, lookups>>

\* (mutant) receive takes the oldest pending call, as if responses came in
\* request order
MutRecvKeyOldest(h) ==
    IF DOMAIN pending = {} THEN h.seq
    ELSE CHOOSE k \in DOMAIN pending : \A j \in DOMAIN pending : k <= j

\* the key receive looks up: client.removeCall(h.Seq)
RecvKey(h) == h.seq

\* receive: ReadHeader and removeCall (client.go 119-125)
RecvHeader ==
    /\ ClientUp
    /\ pcR = "hdr"
    /\ ReadReady(cliConn, s2c, srvConn, severed)
    /\ LET r == GobReadHeader(cliConn, s2c, severed)
           rm == removeCall(pending, RecvKey(r.h))
       IN  /\ s2c' = r.rest
           /\ rerr' = r.err
           /\ IF r.err # NoErr
              THEN /\ pcR' = "term"
                   /\ UNCHANGED <<rh, rcall, pending>>
              ELSE /\ pcR' = "body"
                   /\ rh' = r.h
                   /\ rcall' = rm.call
                   /\ pending' = rm.table
    /\ UNCHANGED <<lockVars, opt, ver, calls, cseq, closed, shutdown, sendLock, header,
                   cliConn, cliBufErr, c2s, severed, serverVars, srvConn,
                   serviceMap, regs, lookups>>

\* receive: the Go type ReadBody decodes into ("nil" for ReadBody(nil))
RecvTarget(call, h) ==
    IF call = 0 \/ h.err # NoErr THEN "nil" ELSE calls[call].replyT

\* receive: what the switch does to the call, given ReadBody's result r
RecvComplete(c, h, r) ==
    IF h.err # NoErr
    THEN done([c EXCEPT !.Error = Errorf(h.err)])
    ELSE IF r.err # NoErr
    THEN done([c EXCEPT !.Error = <<"reading body ">> \o r.err])
    ELSE done([c EXCEPT !.Reply = r.v, !.of = r.of])

\* receive: the switch (client.go 126-143); h and call are the loop's locals
\* and end with the iteration
RecvBody ==
    /\ pcR = "body"
    /\ ReadReady(cliConn, s2c, srvConn, severed)
    /\ rcall # 0 => CanDone(calls[rcall])
    /\ LET r == GobReadBody(cliConn, s2c, severed, RecvTarget(rcall, rh))
       IN  /\ s2c' = r.rest
           /\ rerr' = r.err
           /\ pcR' = IF r.err = NoErr THEN "hdr" ELSE "term"
           /\ calls' = IF rcall = 0 THEN calls
                       ELSE [calls EXCEPT ![rcall] = RecvComplete(@, rh, r)]
    /\ rh' = NoHeader
    /\ rcall' = 0
    /\ UNCHANGED <<lockVars, opt, ver, cseq, pending, closed, shutdown, sendLock, header,
                   cliConn, cliBufErr, c2s, severed, serverVars,
                   srvConn, serviceMap, regs, lookups>>

\* (mutant) terminateCalls misses the oldest pending call
MutTerminateSetSkipOldest(table) ==
    {table[k] : k \in {x \in DOMAIN table : \E y \in DOMAIN table : y < x}}

\* terminateCalls: the calls it completes (for _, call := range pending)
TerminateSet(table) == {table[k] : k \in DOMAIN table}

\* terminateCalls gets through its loop: every channel has room for the
\* pending calls that are signalled on it
TerminateCanRun ==
    \A i \in TerminateSet(pending) :
       ChanLoad(calls[i].ch)
          + Cardinality({j \in TerminateSet(pending) : calls[j].ch = calls[i].ch})
          <= ChanCap(calls[i].ch)

\* terminateCalls(err) under sendLock and lock (client.go 103-113)
TerminateCalls ==
    /\ pcR = "term"
    /\ sendLock = 0
    /\ TerminateCanRun
    /\ shutdown' = TRUE
    /\ calls' = [i \in CallIds |->
                   IF i \in TerminateSet(pending)
                   THEN done([calls[i] EXCEPT !.Error = rerr])
                   ELSE calls[i]]
    /\ pcR' = "exit"
    /\ UNCHANGED <<lockVars, opt, ver, cseq, pending, closed, sendLock, header, rh, rcall,
                   rerr, cliConn, cliBufErr, c2s, s2c, severed, serverVars,
                   srvConn, serviceMap, regs, lookups>>

\* the network under the connection fails
Sever ==
    /\ ~severed
    /\ severed' = TRUE
    /\ UNCHANGED <<lockVars, opt, ver, clientVars, cliConn, c2s, s2c, serverVars,
                   srvConn, serviceMap, regs, lookups>>

\* ------------------------------------------------------------------ server
\* (mutant) the magic number is not compared
MutOptionAcceptedCodecOnly(o) == o.CodecType \in NewCodeFuncMap

\* ServeConn: the Option is accepted (server.go 110-126)
OptionAccepted(o) ==
    o.MagicNumber = MagicNumber /\ o.CodecType \in NewCodeFuncMap

\* ServeConn up to serveCodec; every failure returns through the deferred
\* conn.Close()
ServeConn ==
    /\ spc = "opt"
    /\ IF ~severed /\ OptionAccepted(opt)
       THEN /\ spc' = "read"
            /\ srvCodec' = TRUE
            /\ UNCHANGED srvConn
       ELSE /\ spc' = "rejected"
            /\ srvConn' = "closed"
            /\ UNCHANGED srvCodec
    /\ UNCHANGED <<lockVars, opt, ver, clientVars, cliConn, c2s, s2c, severed, reqs,
                   srvSendLock, srvBufErr, numCalls, serviceMap, regs, lookups>>

Request(h, argv, svc, mType, kind, decErr, pc) ==
    [h |-> h, argv |-> argv, replyv |-> NilV, svc |-> svc, mType |-> mType,
     kind |-> kind,
     decErr |-> decErr, pc |-> pc, nw |-> 0, wh |-> NoHeader, wb |-> NilV]

\* readRequest of the registry server (unnamed/part_002 188-212) on the
\* unread messages q. fatal: (nil, err), the loop breaks. Otherwise req is
\* the request returned: kind "lookup" or "body" with the error stamped in
\* its header when err != nil, kind "ok" when it is to be dispatched.
\* ready is FALSE while the read it needs would block.
readRequestReg(conn, q, peer, sev, map) ==
    LET r1 == GobReadHeader(conn, q, sev)
        fs == findService(map, r1.h.sm)
        r2 == GobReadBody(conn, r1.rest, sev, "Args")
    IN  IF r1.err # NoErr
        THEN [ready |-> TRUE, fatal |-> TRUE, req |-> NilV, rest |-> r1.rest]
        ELSE IF fs.err # NoErr
        THEN [ready |-> TRUE, fatal |-> FALSE, rest |-> r1.rest,
              req |-> Request([r1.h EXCEPT !.err = fs.err], NilV, 0, "",
                              "lookup", FALSE, "lock")]
        ELSE IF r2.err # NoErr
        THEN [ready |-> ReadReady(conn, r1.rest, peer, sev), fatal |-> FALSE,
              rest |-> r2.rest,
              req |-> Request([r1.h EXCEPT !.err = r2.err], NilV, fs.svc.inst,
                              fs.mType,
                              "body", TRUE, "lock")]
        ELSE [ready |-> TRUE, fatal |-> FALSE, rest |-> r2.rest,
              req |-> Request(r1.h, r2.v, fs.svc.inst, fs.mType, "ok", FALSE,
                              "call")]

\* readRequest of src/server.go (138-152): no lookup, argv is a *string,
\* and a ReadBody error is logged and dropped: the request is returned
\* with a nil error and argv left "".
readRequestDay1(conn, q, peer, sev) ==
    LET r1 == GobReadHeader(conn, q, sev)
        r2 == GobReadBody(conn, r1.rest, sev, "string")
    IN  IF r1.err # NoErr
        THEN [ready |-> TRUE, fatal |-> TRUE, req |-> NilV, rest |-> r1.rest]
        ELSE [ready |-> ReadReady(conn, r1.rest, peer, sev), fatal |-> FALSE,
              rest |-> r2.rest,
              req |-> Request(r1.h, IF r2.err = NoErr THEN r2.v ELSE StrV(0),
                              0, "day1", "ok", r2.err # NoErr, "call")]

readRequest(conn, q, peer, sev, map) ==
    IF ver = "reg" THEN readRequestReg(conn, q, peer, sev, map)
    ELSE readRequestDay1(conn, q, peer, sev)

\* (mutant) the loop waits for the handlers it has started before it reads
\* the next request
MutServeReadSerial ==
    /\ spc = "read"
    /\ \A k \in DOMAIN reqs : reqs[k].pc = "done"
    /\ ReadReady(srvConn, c2s, cliConn, severed)
    /\ LET r == readRequest(srvConn, c2s, cliConn, severed, serviceMap)
       IN  /\ r.ready
           /\ c2s' = r.rest
           /\ IF r.fatal
              THEN spc' = "wait" /\ UNCHANGED reqs
              ELSE /\ reqs' = Append(reqs, r.req)
                   /\ spc' = IF r.req.kind = "ok" THEN "read" ELSE "resp"
    /\ UNCHANGED <<lockVars, opt, ver, clientVars, cliConn, s2c, severed, srvSendLock,
                   srvConn, srvBufErr, srvCodec, numCalls, serviceMap, regs, lookups>>

\* serveCodec: one turn of the for loop up to the break, the call of
\* sendResponse or the go statement (server.go 139-155)
ServeRead ==
    /\ spc = "read"
    /\ ReadReady(srvConn, c2s, cliConn, severed)
    /\ LET r == readRequest(srvConn, c2s, cliConn, severed, serviceMap)
       IN  /\ r.ready
           /\ c2s' = r.rest
           /\ IF r.fatal
              THEN spc' = "wait" /\ UNCHANGED reqs
              ELSE /\ reqs' = Append(reqs, r.req)
                   /\ spc' = IF r.req.kind = "ok" THEN "read" ELSE "resp"
    /\ UNCHANGED <<lockVars, opt, ver, clientVars, cliConn, s2c, severed, srvSendLock,
                   srvConn, srvBufErr, srvCodec, numCalls, serviceMap, regs, lookups>>

\* handleRequest: what invoking the method gives. The registry server calls
\* service.call; src/server.go answers "gorpc resp <seq>".
Invoke(req) ==
    IF ver = "reg" THEN ServiceCall(req.mType, req.argv)
    ELSE [err |-> NoErr, reply |-> StrV(req.h.seq)]

\* handleRequest up to sendResponse (unnamed/part_002 228-232)
HandleCall(k) ==
    /\ k \in DOMAIN reqs
    /\ reqs[k].pc = "call"
    /\ LET res == Invoke(reqs[k])
       IN  reqs' = [reqs EXCEPT ![k] =
                      [@ EXCEPT !.h.err = res.err, !.replyv = res.reply,
                                !.pc = "lock"]]
    /\ numCalls' = IF ver = "reg"
                   THEN [numCalls EXCEPT ![<<reqs[k].svc, reqs[k].mType>>] = @ + 1]
                   ELSE numCalls
    /\ UNCHANGED <<lockVars, opt, ver, clientVars, cliConn, c2s, s2c, severed, spc,
                   srvSendLock, srvConn, srvBufErr, srvCodec, serviceMap, regs, lookups>>

\* (mutant) sendResponse writes without waiting for the lock
MutRespondLockNoWait(k) ==
    /\ k \in DOMAIN reqs
    /\ reqs[k].pc = "lock"
    /\ srvSendLock' = k
    /\ reqs' = [reqs EXCEPT ![k].pc = "write"]
    /\ UNCHANGED <<lockVars, opt, ver, clientVars, cliConn, c2s, s2c, severed, spc,
                   srvConn, srvBufErr, srvCodec, numCalls, serviceMap, regs, lookups>>

\* sendResponse: sendLock.Lock()
RespondLock(k) ==
    /\ k \in DOMAIN reqs
    /\ reqs[k].pc = "lock"
    /\ srvSendLock = 0
    /\ srvSendLock' = k
    /\ reqs' = [reqs EXCEPT ![k].pc = "write"]
    /\ UNCHANGED <<lockVars, opt, ver, clientVars, cliConn, c2s, s2c, severed, spc,
                   srvConn, srvBufErr, srvCodec, numCalls, serviceMap, regs, lookups>>

\* (mutant) the reply value is sent even when the method failed
MutResponseBodyReply(req) == req.replyv

\* the body handed to sendResponse: the reply, or invalidRequest when the
\* header carries an error
ResponseBody(req) ==
    IF req.h.err # NoErr THEN invalidRequest ELSE req.replyv

\* sendResponse: c.Write under the lock, then Unlock; for a handler,
\* wg.Done(); for the loop, continue
RespondWrite(k) ==
    /\ k \in DOMAIN reqs
    /\ reqs[k].pc = "write"
    /\ LET w == GobWrite(srvConn, srvBufErr, severed, reqs[k].h,
                         ResponseBody(reqs[k]), reqs[k].h.seq)
       IN  /\ s2c' = IF cliConn = "open" THEN s2c \o w.out ELSE s2c
           /\ srvConn' = w.conn
           /\ srvBufErr' = w.bufErr
    /\ reqs' = [reqs EXCEPT ![k] =
                  [@ EXCEPT !.pc = "done", !.nw = @ + 1, !.wh = reqs[k].h,
                            !.wb = ResponseBody(reqs[k])]]
    /\ srvSendLock' = 0
    /\ spc' = IF reqs[k].kind = "ok" THEN spc ELSE "read"
    /\ UNCHANGED <<lockVars, opt, ver, clientVars, cliConn, c2s, severed, srvCodec,
                   numCalls, serviceMap, regs, lookups>>

\* serveCodec after the loop: wg.Wait(), codec.Close()
ServeClose ==
    /\ spc = "wait"
    /\ \A k \in DOMAIN reqs : reqs[k].pc = "done"
    /\ spc' = "done"
    /\ srvConn' = "closed"
    /\ UNCHANGED <<lockVars, opt, ver, clientVars, cliConn, c2s, s2c, severed, reqs,
                   srvSendLock, srvBufErr, srvCodec, numCalls, serviceMap, regs, lookups>>

ReqIds == 1..MaxCalls

Next ==
    \/ \E i \in CallIds : GoSend(i)
    \/ \E i \in CallIds : SendRegister(i)
    \/ \E i \in CallIds : SendWrite(i)
    \/ \E i \in CallIds : CallReturn(i)
    \/ Close
    \/ RecvHeader
    \/ RecvBody
    \/ TerminateCalls
    \/ Sever
    \/ ServeConn
    \/ ServeRead
    \/ \E k \in ReqIds : HandleCall(k)
    \/ \E k \in ReqIds : RespondLock(k)
    \/ \E k \in ReqIds : RespondWrite(k)
    \/ ServeClose

Spec == Init /\ [][Next]_vars

\* ------------------------------------------------------------------ registry
\* (mutant) Store in place of LoadOrStore: a duplicate overwrites
MutLoadOrStoreOverwrite(map, name, s) ==
    [map |-> (name :> s) @@ map, dup |-> name \in DOMAIN map]

\* sync.Map.LoadOrStore(name, s): the map afterwards and whether name was
\* already there
LoadOrStore(map, name, s) ==
    [map |-> IF name \in DOMAIN map THEN map ELSE (name :> s) @@ map,
     dup |-> name \in DOMAIN map]

\* Server.Register(instance) (unnamed/part_002 65-73)
Register(r) ==
    /\ regs[r].pc = "new"
    /\ LET s == newService(r)
           ls == LoadOrStore(serviceMap, s.name, s)
       IN  /\ serviceMap' = ls.map
           /\ regs' = [regs EXCEPT ![r] =
                         IF ls.dup
                         THEN [pc |-> "dup",
                               err |-> <<"rpc: service already defined: ">> \o s.name]
                         ELSE [pc |-> "ok", err |-> NoErr]]
    /\ UNCHANGED <<lockVars, opt, ver, clientVars, cliConn, c2s, s2c, severed, serverVars,
                   srvConn, lookups>>

BarSum == <<"Bar", ".", "Sum">>
FooNope == <<"Foo", ".", "Nope">>
NoDot == <<"FooSum">>
FooBarSum == <<"Foo", ".", "Bar", ".", "Sum">>
FooDot == <<"Foo", ".">>
BarLeak == <<"Bar", ".", "Leak">>
LookupInputs == {FooSum, BarSum, FooNope, NoDot, FooBarSum, FooDot, BarLeak}

\* findService(sm) and, when it finds the method, service.call on Args{2, 1}
FindAndCall(sm) ==
    /\ Len(lookups) < MaxInvokes
    /\ LET fs == findService(serviceMap, sm)
       IN  /\ lookups' = Append(lookups,
                 [sm |-> sm, err |-> fs.err, inst |-> fs.svc.inst,
                  mType |-> fs.mType,
                  reply |-> IF fs.err = NoErr
                            THEN ServiceCall(fs.mType, ArgsV(2, 1)).reply
                            ELSE NilV])
           /\ numCalls' = IF fs.err = NoErr
                          THEN [numCalls EXCEPT ![<<fs.svc.inst, fs.mType>>] = @ + 1]
                          ELSE numCalls
    /\ UNCHANGED <<lockVars, opt, ver, clientVars, cliConn, c2s, s2c, severed, spc, reqs,
                   srvSendLock, srvConn, srvBufErr, srvCodec, serviceMap, regs>>

\* NewServer(): no service registered, no connection served
InitReg ==
    /\ opt = [MagicNumber |-> MagicNumber, CodecType |-> GobType]
    /\ ver = "reg"
    /\ InitClient
    /\ InitServer
    /\ c2s = <<>>
    /\ s2c = <<>>
    /\ severed = FALSE
    /\ serviceMap = <<>>
    /\ regs = [r \in Insts |-> NoReg]
    /\ lookups = <<>>

NextReg ==
    \/ \E r \in Insts : Register(r)
    \/ \E sm \in LookupInputs : FindAndCall(sm)

SpecReg == InitReg /\ [][NextReg]_vars

\* the goroutines of the client are scheduled again and again; the peer is
\* the registry server
InitFair == Init /\ ver = "reg"

FairSpec ==
    /\ InitFair
    /\ [][Next]_vars
    /\ WF_vars(TerminateCalls)
    /\ \A i \in CallIds : WF_vars(SendRegister(i))
    /\ \A i \in CallIds : WF_vars(SendWrite(i))
    /\ \A i \in CallIds : WF_vars(CallReturn(i))

\* --------------------------------------------------------------- client.Go
\* The callers use Go with one channel of capacity 1 for all their calls
\* and receive from it (CallReturn) when they please.
GoInputs(i) ==
    { Input(FooSum, ArgsV(i, 1), "int"),
      Input(FooDiv, ArgsV(i, 0), "int") }

\* Go(serviceMethod, args, reply, done) up to sendLock.Lock() of send
GoAsync(i) ==
    /\ ClientUp
    /\ calls[i].pc = "idle"
    /\ \A j \in CallIds : j < i => calls[j].pc # "idle"
    /\ sendLock = 0
    /\ SharedCap > 0
    /\ \E in \in GoInputs(i) :
         calls' = [calls EXCEPT ![i] = [@ EXCEPT !.pc = "reg", !.sm = in.sm,
                       !.args = in.args, !.replyT = in.replyT,
                       !.ch = SharedChan]]
    /\ sendLock' = i
    /\ UNCHANGED <<lockVars, opt, ver, cseq, pending, closed, shutdown, header,
                   pcR, rh, rcall, rerr, cliConn, cliBufErr, c2s, s2c, severed,
                   serverVars, srvConn, serviceMap, regs, lookups>>

InitGo ==
    /\ Init
    /\ opt = [MagicNumber |-> MagicNumber, CodecType |-> GobType]
    /\ ver = "reg"

NextGo ==
    \/ \E i \in CallIds : GoAsync(i)
    \/ \E i \in CallIds : SendRegister(i)
    \/ \E i \in CallIds : SendWrite(i)
    \/ \E i \in CallIds : CallReturn(i)
    \/ Close
    \/ RecvHeader
    \/ RecvBody
    \/ TerminateCalls
    \/ Sever
    \/ ServeConn
    \/ ServeRead
    \/ \E k \in ReqIds : HandleCall(k)
    \/ \E k \in ReqIds : RespondLock(k)
    \/ \E k \in ReqIds : RespondWrite(k)
    \/ ServeClose

SpecGo == InitGo /\ [][NextGo]_vars

\* ------------------------------------------------------------ client alone
\* The client with a peer in the server's place that writes whole response
\* frames for any seq, also one no call is pending for, as sendResponse
\* writes them; reqs records what the peer has answered.
PeerSeqs == 1..(MaxCalls + 1)

PeerRespond ==
    /\ Len(reqs) < MaxResps
    /\ Writable(srvConn, severed)
    /\ \E n \in PeerSeqs, e \in {NoErr, <<"divide by zero">>} :
         LET h == Header(FooSum, n, e)
             body == IF e = NoErr THEN IntV(n) ELSE invalidRequest
             w == GobWrite(srvConn, srvBufErr, severed, h, body, n)
         IN  /\ s2c' = IF cliConn = "open" THEN s2c \o w.out ELSE s2c
             /\ reqs' = Append(reqs,
                    [Request(h, NilV, 0, "", "ok", FALSE, "done")
                        EXCEPT !.nw = 1, !.wh = h, !.wb = body])
    /\ UNCHANGED <<lockVars, opt, ver, clientVars, cliConn, c2s, severed, spc,
                   srvSendLock, srvConn, srvBufErr, srvCodec, numCalls,
                   serviceMap, regs, lookups>>

CliInputs(i) ==
    { Input(FooSum, ArgsV(i, 1), "int"),
      Input(FooSum, ChanV, "int") }

\* Call up to sendLock.Lock() of send, with the inputs of this specification
CliSend(i) ==
    /\ ClientUp
    /\ calls[i].pc = "idle"
    /\ \A j \in CallIds : j < i => calls[j].pc # "idle"
    /\ sendLock = 0
    /\ \E in \in CliInputs(i) :
         calls' = [calls EXCEPT ![i] = [@ EXCEPT !.pc = "reg", !.sm = in.sm,
                       !.args = in.args, !.replyT = in.replyT, !.ch = i]]
    /\ sendLock' = i
    /\ UNCHANGED <<lockVars, opt, ver, cseq, pending, closed, shutdown, header,
                   pcR, rh, rcall, rerr, cliConn, cliBufErr, c2s, s2c, severed,
                   serverVars, srvConn, serviceMap, regs, lookups>>

InitCli ==
    /\ Init
    /\ opt = [MagicNumber |-> MagicNumber, CodecType |-> GobType]
    /\ ver = "reg"

NextCli ==
    \/ \E i \in CallIds : CliSend(i)
    \/ \E i \in CallIds : SendRegister(i)
    \/ \E i \in CallIds : SendWrite(i)
    \/ \E i \in CallIds : CallReturn(i)
    \/ Close
    \/ RecvHeader
    \/ RecvBody
    \/ TerminateCalls
    \/ Sever
    \/ PeerRespond

SpecCli == InitCli /\ [][NextCli]_vars

\* ------------------------------------------------------- the client's locks
\* send, receive, terminateCalls, Close and IsAvailable step by step through
\* their Lock and Unlock calls on sendLock and lock. The channels have room
\* (call.done() returns at once), so the calls' records are left alone; a
\* Write and a ReadHeader succeed or fail as the connection decides.
lockRest == <<opt, ver, calls, header, pcR, rcall, rerr, cliBufErr, c2s, s2c,
              severed, serverVars, srvConn, serviceMap, regs, lookups>>

\* send: client.sendLock.Lock()
LkSendLock(i) ==
    /\ lkpc[i] = "idle"
    /\ sendLock = 0
    /\ sendLock' = i
    /\ lkpc' = [lkpc EXCEPT ![i] = "reg"]
    /\ UNCHANGED <<lockRest, lock, cseq, pending, closed, shutdown, rh, cliConn>>

\* registerCall: client.lock.Lock()
LkRegisterLock(i) ==
    /\ lkpc[i] = "reg"
    /\ lock = 0
    /\ lock' = i
    /\ lkpc' = [lkpc EXCEPT ![i] = "regIn"]
    /\ UNCHANGED <<lockRest, sendLock, cseq, pending, closed, shutdown, rh, cliConn>>

\* registerCall: the body and the deferred Unlock
LkRegister(i) ==
    /\ lkpc[i] = "regIn"
    /\ IF RegisterRefused
       THEN /\ lkpc' = [lkpc EXCEPT ![i] = "unlock"]
            /\ UNCHANGED <<cseq, pending>>
       ELSE /\ pending' = (cseq :> i) @@ pending
            /\ cseq' = cseq + 1
            /\ lkpc' = [lkpc EXCEPT ![i] = "write"]
    /\ lock' = 0
    /\ UNCHANGED <<lockRest, sendLock, closed, shutdown, rh, cliConn>>

\* send: client.c.Write returns nil or an error
LkWrite(i) ==
    /\ lkpc[i] = "write"
    /\ \E failed \in BOOLEAN :
         lkpc' = [lkpc EXCEPT ![i] = IF failed THEN "rm" ELSE "unlock"]
    /\ UNCHANGED <<lockRest, sendLock, lock, cseq, pending, closed, shutdown,
                   rh, cliConn>>

\* the seq process p hands to removeCall: a sender its own, receive h.Seq
LkSeq(p) ==
    IF p = Reader THEN rh.seq
    ELSE IF \E k \in DOMAIN pending : pending[k] = p
    THEN CHOOSE k \in DOMAIN pending : pending[k] = p
    ELSE 0

\* removeCall: client.lock.Lock()
LkRemoveLock(p) ==
    /\ lkpc[p] = "rm"
    /\ lock = 0
    /\ lock' = p
    /\ lkpc' = [lkpc EXCEPT ![p] = "rmIn"]
    /\ UNCHANGED <<lockRest, sendLock, cseq, pending, closed, shutdown, rh, cliConn>>

\* removeCall: the delete and the deferred Unlock; receive goes on with
\* its loop, send with its return
LkRemove(p) ==
    /\ lkpc[p] = "rmIn"
    /\ pending' = removeCall(pending, LkSeq(p)).table
    /\ lock' = 0
    /\ lkpc' = [lkpc EXCEPT ![p] = IF p = Reader THEN "hdr" ELSE "unlock"]
    /\ UNCHANGED <<lockRest, sendLock, cseq, closed, shutdown, rh, cliConn>>

\* send: the deferred client.sendLock.Unlock()
LkSendUnlock(i) ==
    /\ lkpc[i] = "unlock"
    /\ sendLock' = 0
    /\ lkpc' = [lkpc EXCEPT ![i] = "end"]
    /\ UNCHANGED <<lockRest, lock, cseq, pending, closed, shutdown, rh, cliConn>>

\* receive: ReadHeader fails (always on a closed codec) or gives a header
LkRecvHeader ==
    /\ lkpc[Reader] = "hdr"
    /\ \/ /\ lkpc' = [lkpc EXCEPT ![Reader] = "term"]
          /\ UNCHANGED rh
       \/ /\ cliConn = "open"
          /\ \E n \in 1..(MaxCalls + 1) : rh' = Header(<<>>, n, NoErr)
          /\ lkpc' = [lkpc EXCEPT ![Reader] = "rm"]
    /\ UNCHANGED <<lockRest, sendLock, lock, cseq, pending, closed, shutdown,
                   cliConn>>

\* (mutant) terminateCalls takes lock first and sendLock second
MutTermOrderLockFirst == <<"lock", "sendLock">>

\* terminateCalls: the order of its two Lock calls
TermOrder == <<"sendLock", "lock">>

LkFree(m) == IF m = "sendLock" THEN sendLock = 0 ELSE lock = 0
LkTake(m, p) ==
    IF m = "sendLock"
    THEN sendLock' = p /\ UNCHANGED lock
    ELSE lock' = p /\ UNCHANGED sendLock

\* terminateCalls: its first Lock
LkTermFirst ==
    /\ lkpc[Reader] = "term"
    /\ LkFree(TermOrder[1])
    /\ LkTake(TermOrder[1], Reader)
    /\ lkpc' = [lkpc EXCEPT ![Reader] = "term2"]
    /\ UNCHANGED <<lockRest, cseq, pending, closed, shutdown, rh, cliConn>>

\* terminateCalls: its second Lock
LkTermSecond ==
    /\ lkpc[Reader] = "term2"
    /\ LkFree(TermOrder[2])
    /\ LkTake(TermOrder[2], Reader)
    /\ lkpc' = [lkpc EXCEPT ![Reader] = "termIn"]
    /\ UNCHANGED <<lockRest, cseq, pending, closed, shutdown, rh, cliConn>>

\* terminateCalls: the body and the deferred client.lock.Unlock()
LkTerminate ==
    /\ lkpc[Reader] = "termIn"
    /\ shutdown' = TRUE
    /\ lock' = 0
    /\ lkpc' = [lkpc EXCEPT ![Reader] = "termOut"]
    /\ UNCHANGED <<lockRest, sendLock, cseq, pending, closed, rh, cliConn>>

\* terminateCalls: the deferred client.sendLock.Unlock()
LkTermUnlock ==
    /\ lkpc[Reader] = "termOut"
    /\ sendLock' = 0
    /\ lkpc' = [lkpc EXCEPT ![Reader] = "end"]
    /\ UNCHANGED <<lockRest, lock, cseq, pending, closed, shutdown, rh, cliConn>>

\* Close: clent.lock.Lock()
LkCloseLock ==
    /\ lkpc[Closer] = "idle"
    /\ lock = 0
    /\ lock' = Closer
    /\ lkpc' = [lkpc EXCEPT ![Closer] = "in"]
    /\ UNCHANGED <<lockRest, sendLock, cseq, pending, closed, shutdown, rh, cliConn>>

\* Close: the body and the deferred Unlock
LkClose ==
    /\ lkpc[Closer] = "in"
    /\ closed' = TRUE
    /\ cliConn' = IF closed THEN cliConn ELSE "closed"
    /\ lock' = 0
    /\ lkpc' = [lkpc EXCEPT ![Closer] = "end"]
    /\ UNCHANGED <<lockRest, sendLock, cseq, pending, shutdown, rh>>

\* IsAvailable: client.lock.Lock()
LkAvailLock ==
    /\ lkpc[Asker] = "idle"
    /\ lock = 0
    /\ lock' = Asker
    /\ lkpc' = [lkpc EXCEPT ![Asker] = "in"]
    /\ UNCHANGED <<lockRest, sendLock, cseq, pending, closed, shutdown, rh, cliConn>>

\* IsAvailable: the read of the flags and the deferred Unlock
LkAvail ==
    /\ lkpc[Asker] = "in"
    /\ lock' = 0
    /\ lkpc' = [lkpc EXCEPT ![Asker] = "end"]
    /\ UNCHANGED <<lockRest, sendLock, cseq, pending, closed, shutdown, rh, cliConn>>

InitLock ==
    /\ Init
    /\ opt = [MagicNumber |-> MagicNumber, CodecType |-> GobType]
    /\ ver = "reg"

NextLock ==
    \/ \E i \in CallIds : LkSendLock(i)
    \/ \E i \in CallIds : LkRegisterLock(i)
    \/ \E i \in CallIds : LkRegister(i)
    \/ \E i \in CallIds : LkWrite(i)
    \/ \E p \in CallIds \cup {Reader} : LkRemoveLock(p)
    \/ \E p \in CallIds \cup {Reader} : LkRemove(p)
    \/ \E i \in CallIds : LkSendUnlock(i)
    \/ LkRecvHeader
    \/ LkTermFirst
    \/ LkTermSecond
    \/ LkTerminate
    \/ LkTermUnlock
    \/ LkCloseLock
    \/ LkClose
    \/ LkAvailLock
    \/ LkAvail

SpecLock == InitLock /\ [][NextLock]_vars

\* every goroutine is scheduled again and again, and a goroutine waiting
\* in Lock gets the mutex when it is freed again and again (sync.Mutex
\* hands a starving waiter the lock)
FairSpecLock ==
    /\ SpecLock
    /\ \A i \in CallIds :
         /\ SF_vars(LkRegisterLock(i))
         /\ WF_vars(LkRegister(i))
         /\ WF_vars(LkWrite(i))
         /\ WF_vars(LkSendUnlock(i))
    /\ \A p \in CallIds \cup {Reader} :
         SF_vars(LkRemoveLock(p)) /\ WF_vars(LkRemove(p))
    /\ SF_vars(LkTermFirst) /\ SF_vars(LkTermSecond)
    /\ WF_vars(LkTerminate) /\ WF_vars(LkTermUnlock)
    /\ WF_vars(LkClose) /\ WF_vars(LkAvail)

\* ------------------------------------------------------------ server alone
\* The server with a peer that behaves as the client's send does towards
\* the connection: whole request frames with seq 1, 2, ... (cseq counts
\* them), then possibly a close of its end. The peer does not read.
PeerInputs(n) ==
    { Input(FooSum, ArgsV(n, 1), "int"),
      Input(FooDiv, ArgsV(n, 0), "int"),
      Input(FooNope, ArgsV(n, 1), "int"),
      Input(FooSum, StrV(0), "int") }

PeerSend ==
    /\ cseq <= MaxReqs
    /\ Writable(cliConn, severed)
    /\ \E in \in PeerInputs(cseq) :
         LET w == GobWrite(cliConn, cliBufErr, severed,
                           Header(in.sm, cseq, NoErr), in.args, cseq)
         IN  c2s' = IF srvConn = "open" THEN c2s \o w.out ELSE c2s
    /\ cseq' = cseq + 1
    /\ UNCHANGED <<lockVars, opt, ver, calls, pending, closed, shutdown, sendLock, header,
                   pcR, rh, rcall, rerr, cliConn, cliBufErr, s2c, severed,
                   serverVars, srvConn, serviceMap, regs, lookups>>

PeerClose ==
    /\ cliConn = "open"
    /\ cliConn' = "closed"
    /\ UNCHANGED <<lockVars, opt, ver, clientVars, c2s, s2c, severed, serverVars,
                   srvConn, serviceMap, regs, lookups>>

ReqIdsSrv == 1..MaxReqs

InitSrv ==
    /\ Init
    /\ opt = [MagicNumber |-> MagicNumber, CodecType |-> GobType]

NextSrv ==
    \/ PeerSend
    \/ PeerClose
    \/ Sever
    \/ ServeConn
    \/ ServeRead
    \/ \E k \in ReqIdsSrv : HandleCall(k)
    \/ \E k \in ReqIdsSrv : RespondLock(k)
    \/ \E k \in ReqIdsSrv : RespondWrite(k)
    \/ ServeClose

SpecSrv == InitSrv /\ [][NextSrv]_vars

\* ================================================================== claims

\* the reply the server's method computes for a call's own request
ExpectedReply(c) ==
    IF ver = "reg" THEN ServiceCall(c.sm[3], c.args).reply ELSE StrV(c.Seq)

\* C1: a call's Reply is only ever filled from the body of the response
\* whose header seq is the call's own Seq, and that body is the reply
\* computed from the call's own arguments; the call receive has matched to
\* the header it read has that header's seq.
C1_NoCrossTalk ==
    /\ \A i \in CallIds :
         (calls[i].Reply # NilV \/ calls[i].of # 0) =>
            /\ calls[i].Seq # 0
            /\ calls[i].of = calls[i].Seq
            /\ calls[i].Reply = ExpectedReply(calls[i])
    /\ (pcR = "body" /\ rcall # 0) => calls[rcall].Seq = rh.seq

\* C1 witness: the second call already holds its reply while the response
\* to the first call is still unread behind it (responses out of order)
C1_Witness ==
    /\ calls[2].Reply # NilV
    /\ calls[1].pc = "wait" /\ calls[1].nDone = 0
    /\ s2c # <<>>
    /\ Head(s2c).k = "H" /\ Head(s2c).h.seq = calls[1].Seq

\* C2: no Call is signalled on its Done channel more than once
C2_DoneAtMostOnce ==
    \A i \in CallIds : calls[i].nDone <= 1

\* C2 witness: the first call was completed by send's write-failure path,
\* the second by terminateCalls, the reader has exited, each signalled once
C2_Witness ==
    /\ pcR = "exit"
    /\ calls[1].Error = ErrGobEncode /\ calls[1].nDone = 1
    /\ calls[1].Seq \notin DOMAIN pending
    /\ calls[2].Seq \in DOMAIN pending /\ calls[2].nDone = 1
    /\ calls[2].pc = "ret"

PendingCalls == {pending[k] : k \in DOMAIN pending}
InFlight(i) == calls[i].pc \in {"reg", "write", "wait"}

\* C3: once the reader loop has left on a read error, terminateCalls runs:
\* the client is shutdown and every call then in pending has been signalled
\* once with a non-nil error; every caller in Call at that time returns.
C3_PendingFlushed ==
    /\ [](pcR = "exit" =>
            /\ shutdown
            /\ \A i \in PendingCalls :
                 calls[i].nDone = 1 /\ calls[i].Error # NoErr)
    /\ [][\A i \in CallIds :
            (pcR = "term" /\ i \in PendingCalls /\ i \notin PendingCalls') =>
               calls'[i].nDone = 1 /\ calls'[i].Error # NoErr]_vars
    /\ (pcR = "term") ~> (pcR = "exit")
    /\ \A i \in CallIds :
         (pcR \in {"term", "exit"} /\ InFlight(i)) ~> (calls[i].pc = "ret")

\* C3 witness: the reader has exited with two calls pending; both were
\* completed with the read error and both callers have returned it
C3_Witness ==
    /\ pcR = "exit"
    /\ Cardinality(DOMAIN pending) = 2
    /\ \A i \in PendingCalls :
         calls[i].pc = "ret" /\ calls[i].ret = rerr /\ rerr # NoErr

IsSuffix(t, q) == \E n \in 0..Len(q) : t = SubSeq(q, n + 1, Len(q))

\* C4: closed and shutdown never go back to false; while either is true
\* no step assigns a sequence number, adds a pending entry or puts a
\* message on the wire, and a send leaving registerCall ends with the
\* call completed once with ErrShutdown, unregistered, sendLock released.
C4_TerminalFlags ==
    [][ /\ closed => closed'
        /\ shutdown => shutdown'
        /\ (closed \/ shutdown) =>
             /\ cseq' = cseq
             /\ DOMAIN pending' \subseteq DOMAIN pending
             /\ IsSuffix(c2s', c2s)
             /\ \A i \in CallIds :
                  (calls[i].pc = "reg" /\ calls'[i].pc # "reg") =>
                     /\ calls'[i].pc = "wait"
                     /\ calls'[i].Error = ErrShutdown
                     /\ calls'[i].nDone = 1
                     /\ calls'[i].Seq = 0
                     /\ i \notin {pending'[k] : k \in DOMAIN pending'}
                     /\ sendLock' = 0
      ]_vars

\* C4 witness: after the reader shut the client down (no Close), a call
\* was refused with ErrShutdown, an earlier one having been admitted
C4_Witness ==
    /\ shutdown /\ ~closed
    /\ cseq = 2
    /\ \E i \in CallIds :
         /\ calls[i].pc = "ret" /\ calls[i].ret = ErrShutdown
         /\ calls[i].Seq = 0 /\ calls[i].nDone = 1

\* C5: a response whose header carries an error completes the matching
\* call with exactly that message as call.Error, leaves call.Reply alone,
\* and the loop goes on when the body was read; Call returns call.Error.
C5_RemoteErrorVerbatim ==
    /\ [][ (pcR = "body" /\ rcall # 0 /\ rh.err # NoErr /\ pcR' # "body") =>
              /\ calls'[rcall].Error = rh.err
              /\ calls'[rcall].Reply = calls[rcall].Reply
              /\ calls'[rcall].nDone = calls[rcall].nDone + 1
              /\ rerr' = NoErr => pcR' = "hdr"
         ]_vars
    /\ [](\A i \in CallIds : calls[i].pc = "ret" => calls[i].ret = calls[i].Error)

\* C5, as the code has it: call.Error is fmt.Errorf(h.Error)
C5_RemoteErrorFormatted ==
    /\ [][ (pcR = "body" /\ rcall # 0 /\ rh.err # NoErr /\ pcR' # "body") =>
              /\ calls'[rcall].Error = Errorf(rh.err)
              /\ calls'[rcall].Reply = calls[rcall].Reply
              /\ calls'[rcall].nDone = calls[rcall].nDone + 1
              /\ rerr' = NoErr => pcR' = "hdr"
         ]_vars
    /\ [](\A i \in CallIds : calls[i].pc = "ret" => calls[i].ret = calls[i].Error)

\* C6: a dispatched request has had no response written until its handler
\* is done and exactly one from then on; that response carries the seq and
\* serviceMethod of a request the client sent, the method's error text
\* (empty for nil) and the reply, or invalidRequest when the method failed;
\* when serveCodec has returned every dispatched request has its response.
C6_OneResponsePerDispatch ==
    \A k \in DOMAIN reqs :
       reqs[k].kind = "ok" =>
          LET q == reqs[k]
              res == Invoke(q)
          IN  /\ q.nw = IF q.pc = "done" THEN 1 ELSE 0
              /\ spc = "done" => q.pc = "done"
              /\ Cardinality({j \in 1..Len(s2c) :
                    s2c[j].k = "H" /\ s2c[j].h.seq = q.h.seq}) <= q.nw
              /\ q.pc = "done" =>
                    /\ \E i \in CallIds :
                          calls[i].Seq = q.wh.seq /\ calls[i].sm = q.wh.sm
                    /\ q.wh.err = res.err
                    /\ q.wb = IF res.err = NoErr THEN res.reply ELSE invalidRequest

\* C6 witness: two dispatched requests answered, one whose method failed
\* (error text, sentinel body) and one whose method returned nil
C6_Witness ==
    \E k1, k2 \in DOMAIN reqs :
       /\ reqs[k1].kind = "ok" /\ reqs[k1].pc = "done"
       /\ reqs[k1].wh.err = <<"divide by zero">> /\ reqs[k1].wb = invalidRequest
       /\ reqs[k2].kind = "ok" /\ reqs[k2].pc = "done"
       /\ reqs[k2].wh.err = NoErr /\ reqs[k2].wb.t = "int"

\* C7: a request whose body failed to decode is not dispatched to a
\* handler and gets exactly one response, an error response with the
\* sentinel body, after which the loop reads on.
C7_BadBodyErrorResponse ==
    \A k \in DOMAIN reqs :
       reqs[k].decErr =>
          /\ reqs[k].kind = "body"
          /\ reqs[k].nw = IF reqs[k].pc = "done" THEN 1 ELSE 0
          /\ reqs[k].pc = "done" =>
                /\ reqs[k].wh.err # NoErr
                /\ reqs[k].wh.seq = reqs[k].h.seq
                /\ reqs[k].wb = invalidRequest
                /\ k = Len(reqs) => spc \in {"read", "wait", "done"}

\* C8: the request loop starts every turn at a frame boundary: the next
\* unread message is a header, also after a request whose lookup failed.
C8_LoopAtFrameBoundary ==
    (spc = "read" /\ c2s # <<>>) => Head(c2s).k = "H"

\* C9: an Option with a wrong magic number or a codec type without a
\* constructor never gets a codec, a request read or a response written,
\* and the connection is closed once ServeConn has looked at it.
C9_RejectedOption ==
    (opt.MagicNumber # MagicNumber \/ opt.CodecType \notin NewCodeFuncMap) =>
       /\ spc \in {"opt", "rejected"}
       /\ ~srvCodec
       /\ reqs = <<>>
       /\ s2c = <<>>
       /\ spc = "rejected" => srvConn = "closed"

\* C9 witness: rejected for its magic number with requests of the client
\* lying unread on the connection
C9_Witness ==
    /\ spc = "rejected"
    /\ opt.MagicNumber # MagicNumber
    /\ c2s # <<>>

SvcName(r) == <<TypeName(r)>>

\* C10: a Register that finds its name taken returns "service already
\* defined" and leaves the map entry alone; for each name exactly one
\* Register succeeds once any has returned, and the map holds that one;
\* an entry never changes, and a lookup of a registered Foo.Sum finds the
\* registered instance and invokes it.
C10_DuplicateRejected ==
    /\ [](\A r \in Insts :
            /\ regs[r].pc = "dup" =>
                  /\ regs[r].err = <<"rpc: service already defined: ">> \o SvcName(r)
                  /\ SvcName(r) \in DOMAIN serviceMap
                  /\ serviceMap[SvcName(r)].inst # r
            /\ regs[r].pc = "ok" =>
                  /\ SvcName(r) \in DOMAIN serviceMap
                  /\ serviceMap[SvcName(r)].inst = r
            /\ regs[r].pc # "new" =>
                  \E w \in Insts : SvcName(w) = SvcName(r) /\ regs[w].pc = "ok")
    /\ [][\A n \in DOMAIN serviceMap :
            n \in DOMAIN serviceMap' /\ serviceMap'[n] = serviceMap[n]]_vars
    /\ [][(Len(lookups') > Len(lookups) /\ <<"Foo">> \in DOMAIN serviceMap
             /\ lookups'[Len(lookups')].sm = FooSum) =>
            /\ lookups'[Len(lookups')].err = NoErr
            /\ lookups'[Len(lookups')].inst = serviceMap[<<"Foo">>].inst
            /\ lookups'[Len(lookups')].reply = IntV(3)]_vars

\* C10 witness: of two Registers of a Foo one succeeded and one was
\* refused, and Foo.Sum was invoked on the one that succeeded
C10_Witness ==
    /\ \E r, d \in Insts :
         /\ SvcName(r) = <<"Foo">> /\ regs[r].pc = "ok"
         /\ SvcName(d) = <<"Foo">> /\ regs[d].pc = "dup"
         /\ numCalls[<<r, "Sum">>] > 0
         /\ numCalls[<<d, "Sum">>] = 0
    /\ \E j \in DOMAIN lookups : lookups[j].sm = FooSum /\ lookups[j].err = NoErr

Dots(sm) == {d \in 1..Len(sm) : sm[d] = "."}

\* C11: findService splits the identifier at its last "." and answers with
\* one of three different errors and no method (no ".", service not in the
\* map, method not exposed by the service), or with the method and a nil
\* error exactly when the service is registered and exposes the method.
C11_LookupOutcomes ==
    [][ Len(lookups') > Len(lookups) =>
          LET l == lookups'[Len(lookups')]
              sm == l.sm
          IN  IF Dots(sm) = {}
              THEN /\ l.mType = ""
                   /\ l.err = <<"rpc server: service/method request ill-formed: ">> \o sm
              ELSE LET d == CHOOSE x \in Dots(sm) : \A y \in Dots(sm) : y <= x
                       svcN == SubSeq(sm, 1, d - 1)
                       meth == SubSeq(sm, d + 1, Len(sm))
                   IN  IF svcN \notin DOMAIN serviceMap
                       THEN /\ l.mType = ""
                            /\ l.err = <<"rpc server: can't find service: ">> \o svcN
                       ELSE IF ~(Len(meth) = 1 /\ meth[1] \in serviceMap[svcN].method)
                       THEN /\ l.mType = ""
                            /\ l.err = <<"rpc server: can't find method: ">> \o meth
                       ELSE /\ l.err = NoErr
                            /\ l.mType = meth[1]
                            /\ l.inst = serviceMap[svcN].inst
      ]_vars

\* C11 witness: with Foo registered, Foo.Bar.Sum was refused for its
\* service Foo.Bar and Foo.Nope for its method
C11_Witness ==
    /\ <<"Foo">> \in DOMAIN serviceMap
    /\ \E j, k \in DOMAIN lookups :
         /\ lookups[j].sm = FooBarSum
         /\ lookups[j].err = <<"rpc server: can't find service: ", "Foo", ".", "Bar">>
         /\ lookups[k].sm = FooNope
         /\ lookups[k].err = <<"rpc server: can't find method: ", "Nope">>

\* a type is externally nameable: exported or builtin, pointers followed to
\* the type they point to
RECURSIVE Nameable(_)
Nameable(t) ==
    IF t.elem # <<>> THEN Nameable(t.elem[1]) ELSE t.exported \/ t.pkg = ""

Shape(m) == m.numIn = 3 /\ m.numOut = 1 /\ m.outErr

\* C12: a registered service exposes exactly the methods of its type that
\* have the shape (receiver, argument, reply) -> error and whose argument
\* and reply types are both externally nameable; Foo.Sum is exposed and
\* invoked with a nil error.
C12_ExposedIffConforming ==
    /\ \A n \in DOMAIN serviceMap :
         serviceMap[n].method =
            {m.name : m \in {x \in TypeMethods(serviceMap[n].inst) :
                Shape(x) /\ Nameable(x.argT) /\ Nameable(x.replyT)}}
    /\ \A j \in DOMAIN lookups :
         (lookups[j].sm = FooSum /\ lookups[j].inst # 0) =>
            lookups[j].err = NoErr /\ lookups[j].reply = IntV(3)

\* C12, as the code has it: a pointer type passes the test whatever it
\* points to, since its Name() and PkgPath() are empty
C12_ExposedAsCoded ==
    /\ \A n \in DOMAIN serviceMap :
         serviceMap[n].method =
            {m.name : m \in {x \in TypeMethods(serviceMap[n].inst) :
                /\ Shape(x)
                /\ (x.argT.elem # <<>> \/ Nameable(x.argT))
                /\ (x.replyT.elem # <<>> \/ Nameable(x.replyT))}}
    /\ \A j \in DOMAIN lookups :
         (lookups[j].sm = FooSum /\ lookups[j].inst # 0) =>
            lookups[j].err = NoErr /\ lookups[j].reply = IntV(3)

\* C13: no handler task writes its response to a codec that is already
\* closed: at every Write of a dispatched request the server's end of the
\* connection is open.
C13_NoWriteOnClosedCodec ==
    [][ \A k \in DOMAIN reqs :
          (reqs[k].kind = "ok" /\ reqs[k].pc = "write" /\ reqs'[k].pc = "done") =>
             srvConn = "open" ]_vars

\* C13: the codec is closed only when the request loop has exited and every
\* handler task of the connection has finished.
C13_ClosedOnlyAfterHandlers ==
    (srvCodec /\ srvConn = "closed") =>
       /\ spc = "done"
       /\ \A k \in DOMAIN reqs : reqs[k].pc = "done"

\* the unread messages of one direction are whole frames: a body follows
\* the header of its own request, and a header is followed by its body or
\* is the last message
Framed(q) ==
    \A j \in 1..Len(q) :
       /\ (q[j].k = "B" /\ j > 1) =>
             q[j - 1].k = "H" /\ q[j - 1].h.seq = q[j].of
       /\ (q[j].k = "H" /\ j < Len(q)) =>
             q[j + 1].k = "B" /\ q[j + 1].of = q[j].h.seq

\* C14: on each side at most one task is inside the section guarded by the
\* connection's send lock, and it is the holder of the lock: at most one
\* server response (of a handler or of the loop's error path) and at most
\* one client send is at its Write; the messages on the wire are whole
\* frames.
C14_OneWriterPerSide ==
    /\ Cardinality({k \in DOMAIN reqs : reqs[k].pc = "write"}) <= 1
    /\ \A k \in DOMAIN reqs : reqs[k].pc = "write" <=> srvSendLock = k
    /\ Cardinality({i \in CallIds : calls[i].pc \in {"reg", "write"}}) <= 1
    /\ \A i \in CallIds : calls[i].pc \in {"reg", "write"} <=> sendLock = i
    /\ Framed(c2s)
    /\ Framed(s2c)

\* C14 witness: a handler is at its Write holding the lock while the
\* response of another request waits for the lock
C14_Witness ==
    \E k1, k2 \in DOMAIN reqs :
       /\ reqs[k1].pc = "write" /\ srvSendLock = k1
       /\ reqs[k2].pc = "lock"
       /\ reqs[k1].kind = "ok"

Admitted == {i \in CallIds : calls[i].Seq # 0}

\* C15: the sequence numbers handed out are 1, 2, ... in the order of the
\* registrations, none twice, and the counter is the next one (a refused
\* registration takes none); every key k of pending maps to a call whose
\* Seq is k, and k is smaller than the counter.
C15_SeqCounter ==
    /\ cseq = 1 + Cardinality(Admitted)
    /\ \A i \in Admitted : 1 <= calls[i].Seq /\ calls[i].Seq < cseq
    /\ \A i, j \in Admitted : i < j => calls[i].Seq < calls[j].Seq
    /\ \A i \in CallIds :
         (calls[i].pc \in {"wait", "ret"} /\ calls[i].Error = ErrShutdown) =>
            calls[i].Seq = 0
    /\ \A k \in DOMAIN pending :
         calls[pending[k]].Seq = k /\ k < cseq

\* C15 witness: two calls registered with seq 1 and 2, both still pending
C15_Witness ==
    /\ cseq = 3
    /\ DOMAIN pending = {1, 2}
    /\ calls[1].Seq = 1 /\ calls[2].Seq = 2

\* C16: a completer never waits on a full notification channel: when the
\* reader loop is about to complete the call it matched, and when
\* terminateCalls is about to flush the pending calls, the channels have
\* room for every call to be signalled.
C16_CompleterNeverWaits ==
    /\ (pcR = "body" /\ rcall # 0) => CanDone(calls[rcall])
    /\ pcR = "term" => TerminateCanRun

\* C17: no entry of the pending table refers to a call that has been
\* signalled on its Done channel.
C17_DoneImpliesRemoved ==
    \A k \in DOMAIN pending : calls[pending[k]].nDone = 0

\* C17, as the code has it: it holds until terminateCalls has run, which
\* signals the pending calls and leaves them in the table
C17_RemovedUntilTerminate ==
    /\ pcR # "exit" => C17_DoneImpliesRemoved
    /\ pcR = "exit" => \A k \in DOMAIN pending : calls[pending[k]].nDone = 1

\* C18: a handler that is still invoking its method holds nothing the
\* request loop needs: the loop waits in sendResponse only for its own
\* error response, the send lock is held only by a task at its Write, and
\* whenever the loop is at the top of its turn and a whole frame is waiting
\* it can read it, whatever the handlers are doing.
C18_LoopNotBlocked ==
    /\ spc = "resp" =>
          /\ reqs[Len(reqs)].kind # "ok"
          /\ reqs[Len(reqs)].pc # "done"
    /\ srvSendLock # 0 => reqs[srvSendLock].pc = "write"
    /\ (spc = "read" /\ Len(c2s) >= 2 /\ Head(c2s).k = "H") => ENABLED ServeRead
    /\ \A k \in DOMAIN reqs :
         (reqs[k].pc = "lock" /\ srvSendLock = 0) => ENABLED RespondLock(k)

\* C18 witness: the handler of the first request has not yet invoked its
\* method; meanwhile the second request was dispatched and the third, a
\* bad one, read and answered
C18_Witness ==
    /\ Len(reqs) = 3
    /\ reqs[1].kind = "ok" /\ reqs[1].pc = "call"
    /\ reqs[2].kind = "ok"
    /\ reqs[3].kind = "lookup" /\ reqs[3].pc = "done" /\ reqs[3].nw = 1
    /\ spc = "read"

\* C19: a response header whose seq is not a key of pending gives the
\* reader loop no call; the loop then reads one body from the stream and
\* throws it away, completes no call, leaves pending as it is and is back
\* at reading a header (or, the read failing, consumes nothing and leaves).
C19_UnmatchedResponse ==
    /\ [][ (pcR = "hdr" /\ pcR' = "body" /\ rh'.seq \notin DOMAIN pending) =>
              /\ rcall' = 0
              /\ pending' = pending
              /\ calls' = calls
              /\ s2c' = Tail(s2c) ]_vars
    /\ [][ (pcR = "body" /\ rcall = 0 /\ pcR' # "body") =>
              /\ calls' = calls
              /\ pending' = pending
              /\ rerr' = NoErr =>
                    /\ pcR' = "hdr"
                    /\ s2c # <<>> /\ Head(s2c).k = "B" /\ s2c' = Tail(s2c)
              /\ rerr' # NoErr => pcR' = "term" /\ s2c' = s2c ]_vars

\* C19 witness: the peer has sent a response nobody waits for and then
\* the response of the pending call; the first was read and thrown away
\* whole, no call was completed, and the loop is at the second's header
C19_Witness ==
    /\ Len(reqs) = 2
    /\ reqs[1].wh.seq \notin DOMAIN pending
    /\ DOMAIN pending = {reqs[2].wh.seq}
    /\ pcR = "hdr"
    /\ s2c = <<HItem(reqs[2].wh), BItem(reqs[2].wb, reqs[2].wh.seq)>>
    /\ \A i \in CallIds : calls[i].nDone = 0

IsH(m) == m.k = "H"
\* the request headers of the connection in the order they were written:
\* those the server has read, then those still unread
WrittenHeaders ==
    [k \in 1..Len(reqs) |-> reqs[k].h] \o
    [j \in 1..Len(SelectSeq(c2s, IsH)) |-> SelectSeq(c2s, IsH)[j].h]

\* C20: the request headers written on the connection have strictly
\* increasing seq; each carries the Seq and ServiceMethod of one call, and
\* the body written after it encodes the Args of that same call.
C20_RequestOrder ==
    /\ \A a, b \in 1..Len(WrittenHeaders) :
         a < b => WrittenHeaders[a].seq < WrittenHeaders[b].seq
    /\ \A a \in 1..Len(WrittenHeaders) :
         \E i \in CallIds :
            /\ calls[i].Seq = WrittenHeaders[a].seq
            /\ calls[i].sm = WrittenHeaders[a].sm
    /\ \A j \in 1..Len(c2s) :
         (c2s[j].k = "B" /\ j > 1) =>
            /\ c2s[j - 1].k = "H"
            /\ \E i \in CallIds :
                 /\ calls[i].Seq = c2s[j - 1].h.seq
                 /\ calls[i].sm = c2s[j - 1].h.sm
                 /\ calls[i].args = c2s[j].b
                 /\ calls[i].Seq = c2s[j].of

\* C20 witness: the frames of two calls lie on the connection, seq 1
\* before seq 2
C20_Witness ==
    /\ Len(c2s) = 4
    /\ c2s[1].k = "H" /\ c2s[1].h.seq = 1
    /\ c2s[3].k = "H" /\ c2s[3].h.seq = 2
    /\ calls[1].sm # calls[2].sm

\* process p has called Lock on sendLock and does not hold it yet
WaitsForSendLock(p) ==
    \/ p \in CallIds /\ lkpc[p] = "idle"
    \/ p = Reader /\ lkpc[p] \in {"term", "term2"} /\ sendLock # p

LockDone == \A p \in LockProcs : lkpc[p] \in {"idle", "end"}

\* C21: with room in the notification channels the client's two locks
\* never deadlock: a mutex is taken only when free, whoever takes sendLock
\* does not hold lock (sendLock comes first), nobody holding lock waits for
\* sendLock, while an operation is under way some step can be taken, and
\* every lock that is held is released again.
C21_NoLockDeadlock ==
    /\ [][ /\ (lock' # lock /\ lock' # 0) => lock = 0
           /\ (sendLock' # sendLock /\ sendLock' # 0) =>
                 sendLock = 0 /\ lock # sendLock' ]_vars
    /\ [](lock # 0 => ~WaitsForSendLock(lock))
    /\ [](~LockDone => ENABLED NextLock)
    /\ (lock # 0) ~> (lock = 0)
    /\ (sendLock # 0) ~> (sendLock = 0)

\* C21 witness: a send holds sendLock and waits for lock, which Close
\* holds, while terminateCalls waits for sendLock and IsAvailable for lock
C21_Witness ==
    /\ sendLock = 1 /\ lkpc[1] = "reg"
    /\ lock = Closer
    /\ lkpc[Reader] = "term"
    /\ lkpc[Asker] = "idle"

====
